---- MODULE Spec2Model ----
(***************************************************************************)
(* Model of package telemetry (aggregators/internal/telemetry/metrics.go): *)
(* the Metrics instrument collection, its constructor NewMetrics, the      *)
(* asynchronous pebble callback installed by registerCallback and the      *)
(* release of the registration by CleanUp.                                 *)
(*                                                                         *)
(* The OpenTelemetry meter and the pebble provider are the environment:    *)
(* every instrument creation, RegisterCallback and Unregister may succeed  *)
(* or fail, the meter collects only registrations that are still active,   *)
(* and the provider returns an arbitrary non-nil snapshot.  Snapshot       *)
(* values stay far below 2^63, where the int64(...) conversions of the     *)
(* callback keep the value.                                                *)
(***************************************************************************)
EXTENDS Integers, Sequences, FiniteSets, TLC

VARIABLES
    heap,           \* the Metrics values that exist; a *Metrics is an index, 0 is nil
    origin,         \* per Metrics value: "NewMetrics" (returned by it), "zero" (a
                    \* zero-value Metrics) or "unreturned" (kept by a callback only)
    regs,           \* the meter's registrations (metric.Registration tokens)
    cleanUpCalls,   \* per Metrics value: number of CleanUp calls made on it
    lastNew,        \* inputs and results of the latest NewMetrics call
    lastCleanUp,    \* receiver and results of the latest CleanUp call (released:
                    \* its registration had been unregistered before the call)
    lastCallback,   \* registration, snapshot and observations of the latest callback run
    providerCalls,  \* number of provider() calls so far
    callbackCalls,  \* number of callback invocations so far
    observeCalls    \* number of ObserveInt64 calls on asynchronous instruments so far

vars == <<heap, origin, regs, cleanUpCalls, lastNew, lastCleanUp, lastCallback,
          providerCalls, callbackCalls, observeCalls>>

----------------------------------------------------------------------------
(* Bounds of the model *)

MaxMetrics == 2     \* Metrics values that may exist
MaxCleanUp == 2     \* CleanUp calls on Metrics values (nil receivers aside)
MaxCollect == 1     \* callback invocations
MaxSnap == 2        \* distinct snapshots the provider may return
NumLevels == 2      \* LSM levels carried by a snapshot

----------------------------------------------------------------------------
(* Errors: an error is the chain of its messages, outermost first; nil is *)
(* the empty chain.  fmt.Errorf("msg: %w", err) puts msg in front.        *)

nil == <<>>

Wrap(msg, err) == <<msg>> \o err

MeterErr == <<"meter error">>

----------------------------------------------------------------------------
(* The Metrics struct *)

SyncFields ==
    {"RequestsTotal", "RequestsFailed", "EventsTotal", "EventsProcessed",
     "BytesIngested"}

AsyncFields ==
    {"pebbleFlushes", "pebbleFlushedBytes", "pebbleCompactions",
     "pebbleIngestedBytes", "pebbleCompactedBytesRead",
     "pebbleCompactedBytesWritten", "pebbleMemtableTotalSize",
     "pebbleTotalDiskUsage", "pebbleReadAmplification", "pebbleNumSSTables",
     "pebbleTableReadersMemEstimate", "pebblePendingCompaction",
     "pebbleMarkedForCompactionFiles", "pebbleKeysTombstones"}

\* var i Metrics: every instrument field nil, registration nil
ZeroMetrics == [fields |-> {}, registration |-> 0]

----------------------------------------------------------------------------
(* NewMetrics: the instrument creations in program order, with the message *)
(* of the error each one returns when it fails.                            *)

CreationOrder ==
    << "RequestsTotal", "RequestsFailed", "EventsTotal", "EventsProcessed",
       "BytesIngested",
       "pebbleFlushes", "pebbleFlushedBytes", "pebbleCompactions",
       "pebbleIngestedBytes", "pebbleCompactedBytesRead",
       "pebbleCompactedBytesWritten", "pebbleMemtableTotalSize",
       "pebbleTotalDiskUsage", "pebbleReadAmplification", "pebbleNumSSTables",
       "pebbleTableReadersMemEstimate", "pebblePendingCompaction",
       "pebbleMarkedForCompactionFiles", "pebbleKeysTombstones" >>

CreateErrMsg ==
    << "failed to create metric for requests total",
       "failed to create metric for requests failed",
       "failed to create metric for events total",
       "failed to create metric for events processed",
       "failed to create metric for bytes processed",
       "failed to create metric for flushes",
       "failed to create metric for flushed bytes",
       "failed to create metric for compactions",
       "failed to create metric for ingested bytes",
       "failed to create metric for compacted bytes read",
       "failed to create metric for compacted bytes written",
       "failed to create metric for memtable size",
       "failed to create metric for total disk usage",
       "failed to create metric for read amplification",
       "failed to create metric for count of sstables",
       "failed to create metric for table cache readers",
       "failed to create metric for pending compaction",
       "failed to create metric for compaction marked files",
       "failed to create metric for tombstones" >>

NumCreations == Len(CreationOrder)

\* a mutant: the error of the memtable-size creation is not checked
ChecksErrAfterButOne(step) == step # 12

\* every creation is followed by `if err != nil { return nil, ... }`
ChecksErrAfter(step) == TRUE

\* the creation at which NewMetrics returns when creation failAt fails
\* (failAt = 0: no creation fails); 0 when it goes on to registerCallback
ReturnsAt(failAt) ==
    IF failAt # 0 /\ ChecksErrAfter(failAt) THEN failAt ELSE 0

\* the creation calls NewMetrics makes
Attempted(failAt) ==
    IF ReturnsAt(failAt) = 0 THEN 1..NumCreations ELSE 1..ReturnsAt(failAt)

\* the instrument fields of i that hold an instrument afterwards
CreatedFields(failAt) ==
    {CreationOrder[s] : s \in Attempted(failAt) \ {failAt}}

\* a mutant: the error of registerCallback is dropped
NewMetricsErrDropped(failAt, regFails) ==
    IF ReturnsAt(failAt) # 0
    THEN Wrap(CreateErrMsg[ReturnsAt(failAt)], MeterErr)
    ELSE nil

\* the error NewMetrics returns
NewMetricsErr(failAt, regFails) ==
    IF ReturnsAt(failAt) # 0
    THEN Wrap(CreateErrMsg[ReturnsAt(failAt)], MeterErr)
    ELSE IF regFails
         THEN Wrap("failed to register callback", MeterErr)
         ELSE nil

----------------------------------------------------------------------------
(* The pebble snapshot (a pointer to pebble.Metrics) the provider returns. *)
(* Snapshot k                                                              *)
(* gives every statistic its own value, so that an observation tells which *)
(* statistic of which snapshot it carries.                                 *)

LevelIds == 0..(NumLevels - 1)

LevelMetrics(k, l) ==
    [ NumFiles       |-> 1000 * k + 100 * l + 1,
      Size           |-> 1000 * k + 100 * l + 2,
      BytesFlushed   |-> 1000 * k + 100 * l + 3,
      BytesIngested  |-> 1000 * k + 100 * l + 4,
      BytesRead      |-> 1000 * k + 100 * l + 5,
      BytesCompacted |-> 1000 * k + 100 * l + 6,
      Sublevels      |-> 1000 * k + 100 * l + 7 ]

Snapshot(k) ==
    [ id       |-> k,
      MemTable |-> [Size |-> 1000 * k + 11],
      Flush    |-> [Count |-> 1000 * k + 12],
      Compact  |-> [Count |-> 1000 * k + 13,
                    EstimatedDebt |-> 1000 * k + 14,
                    MarkedFiles |-> 1000 * k + 15],
      TableCache |-> [Size |-> 1000 * k + 16],
      Keys     |-> [TombstoneCount |-> 1000 * k + 17],
      WAL      |-> [PhysicalSize |-> 1000 * k + 18,
                    ObsoletePhysicalSize |-> 1000 * k + 19],
      Table    |-> [ObsoleteSize |-> 1000 * k + 21,
                    ZombieSize |-> 1000 * k + 22],
      Levels   |-> [l \in LevelIds |-> LevelMetrics(k, l)] ]

RECURSIVE SumLevels(_, _, _)
SumLevels(pm, field, l) ==
    IF l \notin LevelIds THEN 0
    ELSE pm.Levels[l][field] + SumLevels(pm, field, l + 1)

\* pm.Total(): the per-level metrics added up over all levels
Total(pm) ==
    [ NumFiles       |-> SumLevels(pm, "NumFiles", 0),
      BytesIngested  |-> SumLevels(pm, "BytesIngested", 0),
      BytesRead      |-> SumLevels(pm, "BytesRead", 0),
      BytesCompacted |-> SumLevels(pm, "BytesCompacted", 0),
      Sublevels      |-> SumLevels(pm, "Sublevels", 0) ]

\* pm.DiskSpaceUsage(): WAL, level and obsolete/zombie table sizes added up
DiskSpaceUsage(pm) ==
    pm.WAL.PhysicalSize + pm.WAL.ObsoletePhysicalSize
    + SumLevels(pm, "Size", 0)
    + pm.Table.ObsoleteSize + pm.Table.ZombieSize

----------------------------------------------------------------------------
(* registerCallback: the callback body and the instruments it is           *)
(* registered for.                                                         *)

Obs(inst, value) == [inst |-> inst, value |-> value]

\* a mutant: the flushed-bytes gauge is fed twice, the flush counter never
ObservationsSwapped(pm) ==
    LET lm == Total(pm) IN
    << Obs("pebbleMemtableTotalSize", pm.MemTable.Size),
       Obs("pebbleTotalDiskUsage", DiskSpaceUsage(pm)),
       Obs("pebbleFlushedBytes", pm.Flush.Count),
       Obs("pebbleFlushedBytes", pm.Levels[0].BytesFlushed),
       Obs("pebbleCompactions", pm.Compact.Count),
       Obs("pebblePendingCompaction", pm.Compact.EstimatedDebt),
       Obs("pebbleMarkedForCompactionFiles", pm.Compact.MarkedFiles),
       Obs("pebbleTableReadersMemEstimate", pm.TableCache.Size),
       Obs("pebbleKeysTombstones", pm.Keys.TombstoneCount),
       Obs("pebbleNumSSTables", lm.NumFiles),
       Obs("pebbleIngestedBytes", lm.BytesIngested),
       Obs("pebbleCompactedBytesRead", lm.BytesRead),
       Obs("pebbleCompactedBytesWritten", lm.BytesCompacted),
       Obs("pebbleReadAmplification", lm.Sublevels) >>

\* the obs.ObserveInt64 calls of one callback run on snapshot pm, in order
Observations(pm) ==
    LET lm == Total(pm) IN
    << Obs("pebbleMemtableTotalSize", pm.MemTable.Size),
       Obs("pebbleTotalDiskUsage", DiskSpaceUsage(pm)),
       Obs("pebbleFlushes", pm.Flush.Count),
       Obs("pebbleFlushedBytes", pm.Levels[0].BytesFlushed),
       Obs("pebbleCompactions", pm.Compact.Count),
       Obs("pebblePendingCompaction", pm.Compact.EstimatedDebt),
       Obs("pebbleMarkedForCompactionFiles", pm.Compact.MarkedFiles),
       Obs("pebbleTableReadersMemEstimate", pm.TableCache.Size),
       Obs("pebbleKeysTombstones", pm.Keys.TombstoneCount),
       Obs("pebbleNumSSTables", lm.NumFiles),
       Obs("pebbleIngestedBytes", lm.BytesIngested),
       Obs("pebbleCompactedBytesRead", lm.BytesRead),
       Obs("pebbleCompactedBytesWritten", lm.BytesCompacted),
       Obs("pebbleReadAmplification", lm.Sublevels) >>

\* a mutant: the tombstone gauge is left out of the registration
RegisteredInstsShort ==
    << "pebbleMemtableTotalSize", "pebbleTotalDiskUsage", "pebbleFlushes",
       "pebbleFlushedBytes", "pebbleCompactions", "pebbleIngestedBytes",
       "pebbleCompactedBytesRead", "pebbleCompactedBytesWritten",
       "pebbleReadAmplification", "pebbleNumSSTables",
       "pebbleTableReadersMemEstimate", "pebblePendingCompaction",
       "pebbleMarkedForCompactionFiles" >>

\* the instruments handed to meter.RegisterCallback after the callback
RegisteredInsts ==
    << "pebbleMemtableTotalSize", "pebbleTotalDiskUsage", "pebbleFlushes",
       "pebbleFlushedBytes", "pebbleCompactions", "pebbleIngestedBytes",
       "pebbleCompactedBytesRead", "pebbleCompactedBytesWritten",
       "pebbleReadAmplification", "pebbleNumSSTables",
       "pebbleTableReadersMemEstimate", "pebblePendingCompaction",
       "pebbleMarkedForCompactionFiles", "pebbleKeysTombstones" >>

\* a mutant: NewMetrics samples the provider once, eagerly
ProviderCallsEager(op) == IF op \in {"callback", "NewMetrics"} THEN 1 ELSE 0

\* provider() is called in the callback body and nowhere else
ProviderCallsIn(op) == IF op = "callback" THEN 1 ELSE 0

\* a mutant: CleanUp returns early for every receiver
CleanUpSkipsAlways(i) == i = 0 \/ TRUE

\* a mutant: CleanUp forgets a registration once it has been released
CleanUpSkipsReleased(i) ==
    \/ i = 0
    \/ heap[i].registration = 0
    \/ ~regs[heap[i].registration].active

\* if i == nil || i.registration == nil { return nil }
CleanUpSkips(i) == i = 0 \/ heap[i].registration = 0

\* a mutant: the Unregister error is swallowed
CleanUpErrSwallowed(unregErr) == nil

\* the error CleanUp returns when Unregister returned unregErr
CleanUpErr(unregErr) ==
    IF unregErr # nil
    THEN Wrap("failed to unregister callback", unregErr)
    ELSE nil

----------------------------------------------------------------------------
(* State machine *)

NoCall == [called |-> FALSE]

RECURSIVE SumCalls(_, _)
SumCalls(calls, n) == IF n = 0 THEN 0 ELSE calls[n] + SumCalls(calls, n - 1)

Init ==
    /\ heap = <<>>
    /\ origin = <<>>
    /\ regs = <<>>
    /\ cleanUpCalls = <<>>
    /\ lastNew = NoCall
    /\ lastCleanUp = NoCall
    /\ lastCallback = NoCall
    /\ providerCalls = 0
    /\ callbackCalls = 0
    /\ observeCalls = 0

\* NewMetrics(provider, opts...): creation failAt fails (0: none), and
\* meter.RegisterCallback fails iff regFails
NewMetrics(failAt, regFails) ==
    /\ Len(heap) < MaxMetrics
    /\ LET reached == ReturnsAt(failAt) = 0          \* registerCallback runs
           regOk   == reached /\ ~regFails
           newReg  == IF regOk THEN Len(regs) + 1 ELSE 0
           i       == [fields |-> CreatedFields(failAt), registration |-> newReg]
           err     == NewMetricsErr(failAt, regFails)
           ptr     == IF err = nil THEN Len(heap) + 1 ELSE 0
       IN  /\ regs' = IF regOk
                      THEN Append(regs, [owner |-> Len(heap) + 1,
                                         insts |-> RegisteredInsts,
                                         active |-> TRUE,
                                         unregisterCalls |-> 0])
                      ELSE regs
           /\ heap' = IF ptr # 0 \/ regOk THEN Append(heap, i) ELSE heap
           /\ origin' = IF ptr # 0 \/ regOk
                        THEN Append(origin, IF ptr # 0 THEN "NewMetrics"
                                                      ELSE "unreturned")
                        ELSE origin
           /\ cleanUpCalls' = IF ptr # 0 \/ regOk
                              THEN Append(cleanUpCalls, 0) ELSE cleanUpCalls
           /\ lastNew' = [called |-> TRUE,
                          failAt |-> failAt,
                          regFailed |-> reached /\ regFails,
                          attempted |-> Attempted(failAt),
                          registerCalls |-> IF reached THEN 1 ELSE 0,
                          reg |-> newReg,
                          ptr |-> ptr,
                          err |-> err]
    /\ providerCalls' = providerCalls + ProviderCallsIn("NewMetrics")
    /\ UNCHANGED <<lastCleanUp, lastCallback, callbackCalls, observeCalls>>

\* a caller's zero-value Metrics (new(Metrics)): no instrument, no registration
ZeroValue ==
    /\ Len(heap) < MaxMetrics
    /\ heap' = Append(heap, ZeroMetrics)
    /\ origin' = Append(origin, "zero")
    /\ cleanUpCalls' = Append(cleanUpCalls, 0)
    /\ UNCHANGED <<regs, lastNew, lastCleanUp, lastCallback, providerCalls,
                   callbackCalls, observeCalls>>

\* Metrics.CleanUp(): the receiver i is nil (0) or a Metrics value; Unregister, when
\* it is called, fails iff unregFails
CleanUp(i, unregFails) ==
    /\ i \in 0..Len(heap)
    /\ i # 0 => SumCalls(cleanUpCalls, Len(cleanUpCalls)) < MaxCleanUp
    /\ cleanUpCalls' = IF i = 0 THEN cleanUpCalls
                       ELSE [cleanUpCalls EXCEPT ![i] = @ + 1]
    /\ IF CleanUpSkips(i)
       THEN /\ lastCleanUp' = [called |-> TRUE, recv |-> i, reg |-> 0,
                               released |-> FALSE,
                               unregisterCalls |-> 0, unregErr |-> nil,
                               err |-> nil]
            /\ regs' = regs
       ELSE LET r == heap[i].registration
                unregErr == IF unregFails THEN MeterErr ELSE nil
            IN  /\ regs' = [regs EXCEPT
                              ![r].unregisterCalls = @ + 1,
                              ![r].active = IF unregFails THEN @ ELSE FALSE]
                /\ lastCleanUp' = [called |-> TRUE, recv |-> i, reg |-> r,
                                   released |-> ~regs[r].active,
                                   unregisterCalls |-> 1,
                                   unregErr |-> unregErr,
                                   err |-> CleanUpErr(unregErr)]
    /\ providerCalls' = providerCalls + ProviderCallsIn("CleanUp")
    /\ UNCHANGED <<heap, origin, lastNew, lastCallback, callbackCalls,
                   observeCalls>>

\* the meter collects: it runs the callback of registration r, which is
\* still registered; the provider returns snapshot k
Callback(r, k) ==
    /\ r \in DOMAIN regs
    /\ regs[r].active
    /\ callbackCalls < MaxCollect
    /\ LET pm  == Snapshot(k)
           obs == Observations(pm)
       IN  /\ lastCallback' = [called |-> TRUE, reg |-> r, pm |-> k,
                               obs |-> obs, err |-> nil]
           /\ observeCalls' = observeCalls + Len(obs)
    /\ callbackCalls' = callbackCalls + 1
    /\ providerCalls' = providerCalls + ProviderCallsIn("callback")
    /\ UNCHANGED <<heap, origin, regs, cleanUpCalls, lastNew, lastCleanUp>>

Next ==
    \/ \E failAt \in 0..NumCreations, regFails \in BOOLEAN :
           \* RegisterCallback can fail only in a call that reaches it
           (regFails => failAt = 0) /\ NewMetrics(failAt, regFails)
    \/ ZeroValue
    \/ \E i \in 0..MaxMetrics, unregFails \in BOOLEAN : CleanUp(i, unregFails)
    \/ \E r \in 1..MaxMetrics, k \in 1..MaxSnap : Callback(r, k)

Spec == Init /\ [][Next]_vars

----------------------------------------------------------------------------
(* Properties *)

Range(seq) == {seq[j] : j \in DOMAIN seq}

ObservedInsts == {lastCallback.obs[j].inst : j \in DOMAIN lastCallback.obs}

TimesObserved(f) ==
    Cardinality({j \in DOMAIN lastCallback.obs : lastCallback.obs[j].inst = f})

Observed(f, v) ==
    \E j \in DOMAIN lastCallback.obs : lastCallback.obs[j] = Obs(f, v)

\* C1: engine statistics are pulled, never pushed.  A step calls the
\* provider or observes an asynchronous instrument only if it is one
\* callback invocation, and a callback invocation calls the provider exactly
\* once; NewMetrics and CleanUp steps (which leave callbackCalls alone) make
\* no provider call and no observation.
PulledNeverPushed ==
    [][ /\ callbackCalls' = callbackCalls + 1 => providerCalls' = providerCalls + 1
        /\ callbackCalls' # callbackCalls + 1 =>
               /\ providerCalls' = providerCalls
               /\ observeCalls' = observeCalls ]_vars

PulledWitness ==
    /\ callbackCalls = MaxCollect
    /\ providerCalls = MaxCollect
    /\ lastNew.called
    /\ lastCleanUp.called /\ lastCleanUp.unregisterCalls = 1

RegistrationOwned ==
    /\ \A m \in DOMAIN heap :
           origin[m] = "NewMetrics" =>
               /\ heap[m].registration \in DOMAIN regs
               /\ {r \in DOMAIN regs : regs[r].owner = m} = {heap[m].registration}
    /\ lastNew.called /\ lastNew.ptr # 0 => heap[lastNew.ptr].registration = lastNew.reg
    /\ lastCleanUp.called /\ lastCleanUp.recv # 0 /\ origin[lastCleanUp.recv] = "NewMetrics" =>
           /\ lastCleanUp.unregisterCalls = 1
           /\ lastCleanUp.reg = heap[lastCleanUp.recv].registration
           /\ lastCleanUp.err = nil => ~regs[lastCleanUp.reg].active

NoCallbackAfterUnregister ==
    \A r \in DOMAIN regs :
        ~regs[r].active =>
            /\ ~regs'[r].active
            /\ callbackCalls' # callbackCalls => lastCallback'.reg # r

\* C2: the registration is scoped to the Metrics value and released by
\* CleanUp.  Every Metrics returned by NewMetrics holds exactly one
\* registration, created for it; CleanUp on it calls Unregister on that same
\* registration; and once Unregister has succeeded the callback of that
\* registration is not invoked again.
RegistrationScoped ==
    []RegistrationOwned /\ [][NoCallbackAfterUnregister]_vars

RegistrationScopedWitness ==
    /\ lastCleanUp.called
    /\ lastCleanUp.recv # 0
    /\ lastCleanUp.reg # 0
    /\ lastCleanUp.err = nil
    /\ lastCallback.called /\ lastCallback.reg = lastCleanUp.reg
    /\ ~regs[lastCleanUp.reg].active
    /\ \E r \in DOMAIN regs : regs[r].active

\* C3: every callback invocation observes each of the fourteen instruments
\* exactly once, among them one measurement for each of the twelve listed
\* engine statistics, every value taken from the one snapshot the provider
\* returned to this invocation, and returns a nil error.
CallbackObservesSnapshot ==
    lastCallback.called =>
        LET pm == Snapshot(lastCallback.pm) IN
        /\ lastCallback.err = nil
        /\ Len(lastCallback.obs) = 14
        /\ \A f \in AsyncFields : TimesObserved(f) = 1
        /\ Observed("pebbleFlushes", pm.Flush.Count)
        /\ Observed("pebbleFlushedBytes", pm.Levels[0].BytesFlushed)
        /\ Observed("pebbleCompactions", pm.Compact.Count)
        /\ Observed("pebbleCompactedBytesRead", SumLevels(pm, "BytesRead", 0))
        /\ Observed("pebbleCompactedBytesWritten", SumLevels(pm, "BytesCompacted", 0))
        /\ Observed("pebbleIngestedBytes", SumLevels(pm, "BytesIngested", 0))
        /\ Observed("pebbleMemtableTotalSize", pm.MemTable.Size)
        /\ Observed("pebbleTotalDiskUsage", DiskSpaceUsage(pm))
        /\ Observed("pebbleReadAmplification", SumLevels(pm, "Sublevels", 0))
        /\ Observed("pebbleNumSSTables", SumLevels(pm, "NumFiles", 0))
        /\ Observed("pebblePendingCompaction", pm.Compact.EstimatedDebt)
        /\ Observed("pebbleKeysTombstones", pm.Keys.TombstoneCount)

CallbackObservesWitness ==
    /\ callbackCalls = MaxCollect
    /\ lastCallback.called
    /\ lastCallback.pm = MaxSnap
    /\ Observed("pebbleFlushes", 1000 * MaxSnap + 12)

\* C4: when NewMetrics returns a nil error, the returned Metrics is non-nil,
\* its five synchronous counters and fourteen asynchronous instruments are
\* all initialized and its registration is non-nil.
SuccessMeansComplete ==
    /\ lastNew.called /\ lastNew.err = nil =>
           /\ lastNew.ptr \in DOMAIN heap
           /\ lastNew.failAt = 0 /\ ~lastNew.regFailed
           /\ lastNew.attempted = 1..NumCreations
           /\ lastNew.registerCalls = 1
    /\ \A m \in DOMAIN heap :
           origin[m] = "NewMetrics" =>
               /\ SyncFields \subseteq heap[m].fields
               /\ AsyncFields \subseteq heap[m].fields
               /\ Cardinality(heap[m].fields) = 19
               /\ heap[m].registration # 0

SuccessWitness ==
    /\ lastNew.called /\ lastNew.err = nil
    /\ Len(heap) = MaxMetrics
    /\ \A m \in DOMAIN heap : origin[m] = "NewMetrics"

\* C5: NewMetrics fails without leaving a registration behind.  When a
\* creation fails, NewMetrics returns (nil, error wrapping the failure) right
\* there, makes none of the later creation calls and never calls
\* RegisterCallback; when RegisterCallback fails it returns (nil, error).
\* Every registration that exists belongs to a Metrics that was returned.
FailureLeavesNothing ==
    /\ lastNew.called =>
           /\ lastNew.failAt # 0 =>
                  /\ lastNew.ptr = 0
                  /\ lastNew.err = Wrap(CreateErrMsg[lastNew.failAt], MeterErr)
                  /\ lastNew.attempted = 1..lastNew.failAt
                  /\ lastNew.registerCalls = 0
           /\ lastNew.regFailed =>
                  /\ lastNew.ptr = 0
                  /\ lastNew.err = Wrap("failed to register callback", MeterErr)
           /\ lastNew.err # nil => lastNew.ptr = 0 /\ lastNew.reg = 0
    /\ \A r \in DOMAIN regs :
           /\ regs[r].owner \in DOMAIN heap
           /\ origin[regs[r].owner] = "NewMetrics"
           /\ heap[regs[r].owner].registration = r

FailureWitness ==
    /\ lastNew.called
    /\ lastNew.failAt = 12
    /\ lastNew.err # nil
    /\ Len(regs) = 1

\* C6: CleanUp on a nil receiver, or on a Metrics whose registration is nil,
\* returns nil and calls Unregister not at all; otherwise it calls Unregister
\* exactly once and returns nil if Unregister succeeded and an error wrapping
\* the Unregister error if it failed.
CleanUpResult ==
    lastCleanUp.called =>
        IF lastCleanUp.recv = 0 \/ heap[lastCleanUp.recv].registration = 0
        THEN /\ lastCleanUp.unregisterCalls = 0
             /\ lastCleanUp.err = nil
        ELSE /\ lastCleanUp.unregisterCalls = 1
             /\ lastCleanUp.unregErr = nil => lastCleanUp.err = nil
             /\ lastCleanUp.unregErr # nil =>
                    /\ lastCleanUp.err # nil
                    /\ Head(lastCleanUp.err) = "failed to unregister callback"
                    /\ Tail(lastCleanUp.err) = lastCleanUp.unregErr

CleanUpResultWitness ==
    /\ lastCleanUp.called
    /\ lastCleanUp.unregErr # nil
    /\ lastCleanUp.err # nil
    /\ \E m \in DOMAIN heap : origin[m] = "zero" /\ cleanUpCalls[m] >= 1

\* C7: the instruments handed to RegisterCallback, the instruments the
\* callback observes and the fourteen unexported pebble instruments of
\* Metrics are the same set.
RegisteredEqualsObserved ==
    /\ \A r \in DOMAIN regs :
           /\ Range(regs[r].insts) = AsyncFields
           /\ Range(regs[r].insts) \subseteq heap[regs[r].owner].fields
    /\ lastCallback.called =>
           /\ ObservedInsts = Range(regs[lastCallback.reg].insts)
           /\ ObservedInsts = AsyncFields
           /\ ObservedInsts \cap SyncFields = {}

RegisteredWitness ==
    /\ lastCallback.called
    /\ Cardinality(ObservedInsts) = 14
    /\ Len(regs[lastCallback.reg].insts) = 14

\* C8 as stated: after a CleanUp that unregistered successfully, a further
\* CleanUp on the same Metrics returns nil without calling Unregister again.
UnregisterAtMostOnce ==
    lastCleanUp.called /\ lastCleanUp.released =>
        /\ lastCleanUp.unregisterCalls = 0
        /\ lastCleanUp.err = nil

\* C8 amended: CleanUp does not remember that it released the registration.
\* Every CleanUp call on a Metrics that holds a registration calls Unregister
\* once, also after an earlier CleanUp unregistered successfully, so the
\* number of Unregister calls on a registration equals the number of CleanUp
\* calls on its Metrics.
UnregisterPerCleanUp ==
    /\ \A r \in DOMAIN regs :
           regs[r].unregisterCalls = cleanUpCalls[regs[r].owner]
    /\ lastCleanUp.called /\ lastCleanUp.released =>
           lastCleanUp.unregisterCalls = 1

UnregisterAgainWitness ==
    /\ lastCleanUp.called
    /\ lastCleanUp.released
    /\ lastCleanUp.unregisterCalls = 1
    /\ regs[lastCleanUp.reg].unregisterCalls = 2

====
